---- MODULE Spec2Model ----
(***************************************************************************)
(* A model of the-super-tiny-compiler (src/super-tiny-compiler.ts):        *)
(* tokenizer -> parser -> transformer (over traverser) -> codeGenerator,   *)
(* sequenced by compiler.  Texts are sequences of one-character strings.   *)
(* `current` cursors are 0-based, as in the source.                        *)
(***************************************************************************)
EXTENDS Integers, Sequences, FiniteSets, TLC

\* ------------------------------------------------------------------ bounds
\* longest arbitrary input text explored
MaxLen == 4
\* longest arbitrary token sequence handed directly to parser
MaxTokens == 4
\* most arguments of a call in the generated well-formed programs
MaxArgs == 2
\* the engine's string length limit (V8: 2^29 - 24), scaled down: a
\* `value += char` that would exceed it throws RangeError
MaxStringLength == 20

\* ------------------------------------------------------------- characters
\* what input[i] yields when i is outside the text
undefined == "undefined"
\* the characters String(undefined) is made of
UndefinedText == <<"u", "n", "d", "e", "f", "i", "n", "e", "d">>

Digits == {"0", "1", "2", "3", "4", "5", "6", "7", "8", "9"}
Letters == {"a", "b", "c", "d", "e", "f", "g", "h", "i", "j", "k", "l", "m",
            "n", "o", "p", "q", "r", "s", "t", "u", "v", "w", "x", "y", "z"}
Spaces == {" ", "\n", "\t"}

\* re.WHITESPACE.test(char): /\s/ ; String(undefined) holds no whitespace
WHITESPACE_NonWord(char) == char \notin Digits \cup Letters \cup {undefined}
WHITESPACE(char) == char \in Spaces

\* re.NUMBERS.test(char): /[0-9]/ ; String(undefined) holds no digit
NUMBERS(char) == char \in Digits

\* re.LETTERS.test(char): /[a-z]/i ; test coerces undefined to the text
\* "undefined", which does hold letters, so the test is true past the end
LETTERS(char) == char \in Letters \/ char = undefined

\* value += char
Concat(value, char) ==
    IF char = undefined THEN value \o UndefinedText ELSE Append(value, char)

\* ---------------------------------------------------------------- tokens
Token(type, value) == [type |-> type, value |-> value]

\* ------------------------------------------------------------ source AST
NumberLiteral(value) == [type |-> "NumberLiteral", value |-> value]
StringLiteral(value) == [type |-> "StringLiteral", value |-> value]
CallExpression(name, params) ==
    [type |-> "CallExpression", name |-> name, params |-> params]
ProgramNode(body) == [type |-> "Program", body |-> body]

\* ------------------------------------------------------------------ inputs
SeqsUpTo(S, n) == UNION {[1..k -> S] : k \in 0..n}

\* one character of each class tokenizer tells apart, and one it rejects
Alphabet == {"(", ")", " ", "1", "\"", "a", "#"}
ArbitraryTexts == SeqsUpTo(Alphabet, MaxLen)

\* one token of each kind parser tells apart
TokenAlphabet ==
    { Token("paren", <<"(">>), Token("paren", <<")">>),
      Token("number", <<"1">>), Token("string", <<"x">>),
      Token("name", <<"a">>) }
ArbitraryTokens == SeqsUpTo(TokenAlphabet, MaxTokens)

\* well-formed programs: calls over numbers, strings and nested calls
NumberLeaves == {NumberLiteral(<<"1">>), NumberLiteral(<<"2", "0">>)}
Leaves == NumberLeaves \cup {StringLiteral(<<"x">>)}
InnerCalls ==
    {CallExpression(<<"b">>, ps) : ps \in SeqsUpTo(NumberLeaves, MaxArgs)}
OuterCalls ==
    {CallExpression(<<"a", "d", "d">>, ps) :
        ps \in SeqsUpTo(Leaves \cup InnerCalls, MaxArgs)}
DeepCall ==
    CallExpression(<<"f">>,
        <<CallExpression(<<"g">>,
            <<CallExpression(<<"h">>, <<NumberLiteral(<<"7">>)>>),
              NumberLiteral(<<"8">>)>>)>>)
WellFormedPrograms ==
    {<<c>> : c \in OuterCalls \cup {DeepCall}}
        \cup {<<c, d>> : c \in InnerCalls, d \in InnerCalls}

\* the kinds of node of the source tree, and the methods a visitor may have
NodeTypes == {"Program", "CallExpression", "NumberLiteral", "StringLiteral"}
AllMethods == NodeTypes \X {"enter", "exit"}
\* the visitor transformer passes to traverser (lines 447-490)
TransformerVisitor ==
    {"NumberLiteral", "StringLiteral", "CallExpression"} \X {"enter"}
\* visitors handed directly to traverser
Visitors ==
    { AllMethods,
      NodeTypes \X {"enter"},
      NodeTypes \X {"exit"},
      {"CallExpression"} \X {"enter", "exit"},
      {} }
\* trees handed directly to traverser
MixedCall ==
    CallExpression(<<"m">>,
        <<StringLiteral(<<"x">>),
          CallExpression(<<"n">>, <<NumberLiteral(<<"1">>)>>),
          NumberLiteral(<<"2">>)>>)
TraversedPrograms ==
    {<<c, d>> : c \in InnerCalls, d \in Leaves}
        \cup {<<DeepCall>>, <<MixedCall, DeepCall>>, <<>>}

\* the text of a well-formed program: (name arg*) with single spaces
RECURSIVE JoinTexts(_, _)
JoinTexts(texts, sep) ==
    IF texts = <<>> THEN <<>>
    ELSE IF Len(texts) = 1 THEN texts[1]
    ELSE texts[1] \o sep \o JoinTexts(Tail(texts), sep)

RECURSIVE LispText(_)
LispText(node) ==
    CASE node.type = "NumberLiteral" -> node.value
      [] node.type = "StringLiteral" -> <<"\"">> \o node.value \o <<"\"">>
      [] node.type = "CallExpression" ->
            <<"(">> \o node.name
            \o JoinTexts([i \in 1..Len(node.params) |->
                            <<" ">> \o LispText(node.params[i])], <<>>)
            \o <<")">>

ProgramText(body) ==
    JoinTexts([i \in 1..Len(body) |-> LispText(body[i])], <<" ">>)

\* the scenarios of the tests and of the documentation
ScenarioNested ==
    <<"(", "a", "d", "d", " ", "2", " ", "(", "s", "u", "b", "t", "r", "a",
      "c", "t", " ", "4", " ", "2", ")", ")">>
ScenarioNoArgs == <<"(", "f", "o", "o", ")">>
ScenarioBadChar == <<"(", "a", "d", "d", " ", "2", " ", "#", ")">>
ScenarioString ==
    <<"(", "a", "d", "d", " ", "\"", "x", "\"", " ", "1", ")">>
ScenarioNumberName == <<"(", "1", " ", "2", ")">>
ScenarioUnclosed == <<"(", "a", "d", "d", " ", "2">>
ScenarioNameAtEnd == <<"(", "a", "d", "d">>
ScenarioNameArg == <<"(", "a", " ", "a", ")">>
Scenarios ==
    { ScenarioNested, ScenarioNoArgs, ScenarioBadChar, ScenarioString,
      ScenarioNumberName, ScenarioUnclosed, ScenarioNameAtEnd,
      ScenarioNameArg }

\* ------------------------------------------------------------------- state
VARIABLES
    entry,      \* the exported function the run starts in
    shape,      \* the well-formed program input was written from, or <<>>
    input,      \* compiler's and tokenizer's argument
    phase,      \* the stage of the pipeline that is running
    error,      \* the exception that ended the run, or "none"
    current,    \* tokenizer: `current`
    scan,       \* tokenizer: the loop the cursor is in
    value,      \* tokenizer: `value` of the token being read
    tokens,     \* tokenizer: `tokens` ; parser's argument
    pcurrent,   \* parser: `current`
    stack,      \* parser: the calls of walk() that are in their while loop
    ast,        \* parser: `ast`
    arrays,     \* transformer: the arrays of the new tree, by identity
    newAst,     \* transformer: `newAst`
    _context,   \* transformer: the `_context` field of each source node
    trav,       \* traverser: the calls of traverseNode() in progress
    visitor,    \* traverser: the methods `visitor` has, as <<type, method>>
    calls,      \* traverser: the visitor methods called so far, in order
    output      \* codeGenerator's result, compiler's return value

vars == <<entry, shape, input, phase, error, current, scan, value, tokens,
          pcurrent, stack, ast, arrays, newAst, _context, trav, visitor,
          calls, output>>

tokenizerVars == <<current, scan, value>>
parserVars == <<pcurrent, stack, ast>>
transformerVars == <<arrays, newAst, _context, trav>>

NoOutput == <<"<", "n", "o", "n", "e", ">">>
NoAst == [type |-> "none", body |-> <<>>]
NoNewAst == [type |-> "none", body |-> 0]

Blank ==
    /\ phase \in {"tokenizer", "parser", "traverser"}
    /\ error = "none"
    /\ current = 0 /\ scan = "main" /\ value = <<>>
    /\ pcurrent = 0 /\ stack = <<>>
    /\ arrays = <<>> /\ newAst = NoNewAst /\ _context = <<>> /\ trav = <<>>
    /\ calls = <<>>
    /\ output = NoOutput

Init ==
    /\ Blank
    /\ \/ /\ entry = "compiler" /\ phase = "tokenizer"
          /\ visitor = TransformerVisitor
          /\ tokens = <<>> /\ ast = NoAst
          /\ \/ shape \in WellFormedPrograms /\ input = ProgramText(shape)
             \/ shape = <<>> /\ input \in ArbitraryTexts \cup Scenarios
       \/ /\ entry = "parser" /\ phase = "parser"
          /\ shape = <<>> /\ input = <<>>
          /\ visitor = TransformerVisitor
          /\ tokens \in ArbitraryTokens
          /\ ast = ProgramNode(<<>>)
       \/ /\ entry = "traverser" /\ phase = "traverser"
          /\ shape = <<>> /\ input = <<>> /\ tokens = <<>>
          /\ visitor \in Visitors
          /\ ast \in {ProgramNode(body) : body \in TraversedPrograms}

\* an exception propagates to the caller: the run ends with no result
Throw(kind) ==
    /\ phase' = "error"
    /\ error' = kind

\* --------------------------------------------------------------- tokenizer
\* input[i]
CharAt(i) == IF i < Len(input) THEN input[i + 1] ELSE undefined

Tokenizing == phase = "tokenizer"
AtMain == Tokenizing /\ scan = "main" /\ current < Len(input)

\* the offset the digit run starting at i ends before
RECURSIVE NumberEnd(_)
NumberEnd(i) == IF NUMBERS(CharAt(i)) THEN NumberEnd(i + 1) ELSE i

\* lines 41-45
TokenizerParen ==
    /\ AtMain
    /\ CharAt(current) \in {"(", ")"}
    /\ tokens' = Append(tokens, Token("paren", <<CharAt(current)>>))
    /\ current' = current + 1
    /\ UNCHANGED calls
    /\ UNCHANGED <<visitor, entry, shape, input, phase, error, scan, value,
                   output>>
    /\ UNCHANGED <<parserVars, transformerVars>>

\* lines 46-49
TokenizerWhitespace ==
    /\ AtMain
    /\ CharAt(current) \notin {"(", ")"}
    /\ WHITESPACE(CharAt(current))
    /\ current' = current + 1
    /\ UNCHANGED calls
    /\ UNCHANGED <<visitor, entry, shape, input, phase, error, scan, value,
                   tokens,
                   output>>
    /\ UNCHANGED <<parserVars, transformerVars>>

Unhandled(char) == char \notin {"(", ")"} /\ ~WHITESPACE(char)

\* lines 51-59: the whole digit loop, which always ends (undefined is no
\* digit)
TokenizerNumber ==
    /\ AtMain
    /\ Unhandled(CharAt(current))
    /\ NUMBERS(CharAt(current))
    /\ tokens' = Append(tokens,
            Token("number", SubSeq(input, current + 1, NumberEnd(current))))
    /\ current' = NumberEnd(current)
    /\ UNCHANGED calls
    /\ UNCHANGED <<visitor, entry, shape, input, phase, error, scan, value,
                   output>>
    /\ UNCHANGED <<parserVars, transformerVars>>

\* lines 61-64: value = "" ; char = input[++current]
TokenizerStringOpen ==
    /\ AtMain
    /\ Unhandled(CharAt(current)) /\ ~NUMBERS(CharAt(current))
    /\ CharAt(current) = "\""
    /\ value' = <<>>
    /\ current' = current + 1
    /\ scan' = "string"
    /\ UNCHANGED calls
    /\ UNCHANGED <<visitor, entry, shape, input, phase, error, tokens,
                   output>>
    /\ UNCHANGED <<parserVars, transformerVars>>

\* lines 65-68: one turn of the loop; past the end char is undefined, which
\* is not a quote, so the loop goes on until value is too long for the engine
TokenizerStringChar ==
    /\ Tokenizing /\ scan = "string"
    /\ CharAt(current) # "\""
    /\ IF Len(Concat(value, CharAt(current))) > MaxStringLength
       THEN /\ Throw("RangeError")
            /\ UNCHANGED <<current, value>>
       ELSE /\ value' = Concat(value, CharAt(current))
            /\ current' = current + 1
            /\ UNCHANGED <<phase, error>>
    /\ UNCHANGED calls
    /\ UNCHANGED <<visitor, entry, shape, input, scan, tokens, output>>
    /\ UNCHANGED <<parserVars, transformerVars>>

\* where the cursor is left when the closing quote is found: the source
\* says "Skip the closing double quote." and does not move the cursor
AfterString(c) == c

\* lines 69-71
TokenizerStringClose ==
    /\ Tokenizing /\ scan = "string"
    /\ CharAt(current) = "\""
    /\ tokens' = Append(tokens, Token("string", value))
    /\ current' = AfterString(current)
    /\ scan' = "main"
    /\ value' = <<>>
    /\ UNCHANGED calls
    /\ UNCHANGED <<visitor, entry, shape, input, phase, error, output>>
    /\ UNCHANGED <<parserVars, transformerVars>>

\* lines 74-75
TokenizerNameOpen ==
    /\ AtMain
    /\ Unhandled(CharAt(current)) /\ ~NUMBERS(CharAt(current))
    /\ CharAt(current) # "\""
    /\ LETTERS(CharAt(current))
    /\ value' = <<>>
    /\ scan' = "name"
    /\ UNCHANGED calls
    /\ UNCHANGED <<visitor, entry, shape, input, phase, error, current, tokens,
                   output>>
    /\ UNCHANGED <<parserVars, transformerVars>>

\* lines 76-79: one turn of the loop
TokenizerNameChar ==
    /\ Tokenizing /\ scan = "name"
    /\ LETTERS(CharAt(current))
    /\ IF Len(Concat(value, CharAt(current))) > MaxStringLength
       THEN /\ Throw("RangeError")
            /\ UNCHANGED <<current, value>>
       ELSE /\ value' = Concat(value, CharAt(current))
            /\ current' = current + 1
            /\ UNCHANGED <<phase, error>>
    /\ UNCHANGED calls
    /\ UNCHANGED <<visitor, entry, shape, input, scan, tokens, output>>
    /\ UNCHANGED <<parserVars, transformerVars>>

\* lines 80-81
TokenizerNameClose ==
    /\ Tokenizing /\ scan = "name"
    /\ ~LETTERS(CharAt(current))
    /\ tokens' = Append(tokens, Token("name", value))
    /\ scan' = "main"
    /\ value' = <<>>
    /\ UNCHANGED calls
    /\ UNCHANGED <<visitor, entry, shape, input, phase, error, current, output>>
    /\ UNCHANGED <<parserVars, transformerVars>>

\* line 84
TokenizerThrow ==
    /\ AtMain
    /\ Unhandled(CharAt(current)) /\ ~NUMBERS(CharAt(current))
    /\ CharAt(current) # "\""
    /\ ~LETTERS(CharAt(current))
    /\ Throw("TypeError")
    /\ UNCHANGED calls
    /\ UNCHANGED <<visitor, entry, shape, input, tokens, output>>
    /\ UNCHANGED <<tokenizerVars, parserVars, transformerVars>>

\* lines 39, 87 and 516-517: the loop ends, tokens go to parser, which
\* starts with current = 0 and an empty Program (lines 186, 272)
TokenizerReturn ==
    /\ Tokenizing /\ scan = "main"
    /\ ~(current < Len(input))
    /\ phase' = "parser"
    /\ pcurrent' = 0
    /\ ast' = ProgramNode(<<>>)
    /\ UNCHANGED calls
    /\ UNCHANGED <<visitor, entry, shape, input, error, tokens, output, stack>>
    /\ UNCHANGED <<tokenizerVars, transformerVars>>

tokenizer ==
    \/ TokenizerParen
    \/ TokenizerWhitespace
    \/ TokenizerNumber
    \/ TokenizerStringOpen
    \/ TokenizerStringChar
    \/ TokenizerStringClose
    \/ TokenizerNameOpen
    \/ TokenizerNameChar
    \/ TokenizerNameClose
    \/ TokenizerThrow
    \/ TokenizerReturn

\* ------------------------------------------------------------------ parser
Parsing == phase = "parser"

\* tokens[i] is defined
HasToken(i) == i < Len(tokens)
\* tokens[i]
TokenAt(i) == tokens[i + 1]

\* the while condition of lines 246-249 is false: the token closes the call
IsClosing(token) == token.type = "paren" /\ token.value = <<")">>
IsOpening(token) == token.type = "paren" /\ token.value = <<"(">>

\* walk() is being called: by the loop of line 282, or by the loop of line
\* 246 whose condition read a token that does not close the call
WalkCalled ==
    /\ Parsing
    /\ HasToken(pcurrent)
    /\ stack = <<>> \/ ~IsClosing(TokenAt(pcurrent))

\* the node walk() returns is pushed by its caller: line 252 (params of the
\* call being read) or line 283 (ast.body)
Deliver(frames, node) ==
    IF frames = <<>>
    THEN /\ ast' = ProgramNode(Append(ast.body, node))
         /\ stack' = frames
    ELSE /\ stack' = [frames EXCEPT ![Len(frames)] =
                        CallExpression(@.name, Append(@.params, node))]
         /\ ast' = ast

\* line 198
IsNumberToken_OrName(token) == token.type \in {"number", "name"}
IsNumberToken(token) == token.type = "number"
\* line 207
IsStringToken(token) == token.type = "string"

\* lines 198-204
ParserNumber ==
    /\ WalkCalled
    /\ IsNumberToken(TokenAt(pcurrent))
    /\ pcurrent' = pcurrent + 1
    /\ Deliver(stack, NumberLiteral(TokenAt(pcurrent).value))
    /\ UNCHANGED calls
    /\ UNCHANGED <<visitor, entry, shape, input, phase, error, tokens,
                   output>>
    /\ UNCHANGED <<tokenizerVars, transformerVars>>

\* lines 207-210
ParserString ==
    /\ WalkCalled
    /\ ~IsNumberToken(TokenAt(pcurrent))
    /\ IsStringToken(TokenAt(pcurrent))
    /\ pcurrent' = pcurrent + 1
    /\ Deliver(stack, StringLiteral(TokenAt(pcurrent).value))
    /\ UNCHANGED calls
    /\ UNCHANGED <<visitor, entry, shape, input, phase, error, tokens,
                   output>>
    /\ UNCHANGED <<tokenizerVars, transformerVars>>

\* line 222: the name of the call is the value of whatever token follows the
\* parenthesis; its type is not looked at
CallName(token) == token.value

\* lines 214-225: token = tokens[++current] ; new CallExpression(token.value)
\* ; token = tokens[++current].  token.value of undefined throws
ParserOpen ==
    /\ WalkCalled
    /\ ~IsNumberToken(TokenAt(pcurrent))
    /\ ~IsStringToken(TokenAt(pcurrent))
    /\ IsOpening(TokenAt(pcurrent))
    /\ IF HasToken(pcurrent + 1)
       THEN /\ stack' = Append(stack,
                    CallExpression(CallName(TokenAt(pcurrent + 1)), <<>>))
            /\ pcurrent' = pcurrent + 2
            /\ UNCHANGED <<phase, error>>
       ELSE /\ Throw("TypeError")
            /\ UNCHANGED <<stack, pcurrent>>
    /\ UNCHANGED calls
    /\ UNCHANGED <<visitor, entry, shape, input, tokens, output, ast>>
    /\ UNCHANGED <<tokenizerVars, transformerVars>>

\* the end of the tokens taken for a closing parenthesis
ParserWhileUndefined_ReturnsCall ==
    /\ phase = "parser"
    /\ stack # <<>>
    /\ ~HasToken(pcurrent)
    /\ pcurrent' = pcurrent
    /\ Deliver(SubSeq(stack, 1, Len(stack) - 1), stack[Len(stack)])
    /\ UNCHANGED calls
    /\ UNCHANGED <<visitor, entry, shape, input, phase, error, tokens,
                   output>>
    /\ UNCHANGED <<tokenizerVars, transformerVars>>

\* lines 246-249 with token undefined: token.type throws
ParserWhileUndefined ==
    /\ Parsing
    /\ stack # <<>>
    /\ ~HasToken(pcurrent)
    /\ Throw("TypeError")
    /\ UNCHANGED calls
    /\ UNCHANGED <<visitor, entry, shape, input, tokens, output>>
    /\ UNCHANGED <<tokenizerVars, parserVars, transformerVars>>

\* lines 246-249 false, then 258-261: the call is returned to its caller
ParserClose ==
    /\ Parsing
    /\ stack # <<>>
    /\ HasToken(pcurrent)
    /\ IsClosing(TokenAt(pcurrent))
    /\ pcurrent' = pcurrent + 1
    /\ Deliver(SubSeq(stack, 1, Len(stack) - 1), stack[Len(stack)])
    /\ UNCHANGED calls
    /\ UNCHANGED <<visitor, entry, shape, input, phase, error, tokens,
                   output>>
    /\ UNCHANGED <<tokenizerVars, transformerVars>>

\* the token types walk() has a branch for (lines 198, 207, 214)
Recognised(token) ==
    \/ IsNumberToken(token)
    \/ IsStringToken(token)
    \/ IsOpening(token)

\* line 266
ParserThrow ==
    /\ WalkCalled
    /\ ~Recognised(TokenAt(pcurrent))
    /\ Throw("TypeError")
    /\ UNCHANGED calls
    /\ UNCHANGED <<visitor, entry, shape, input, tokens, output>>
    /\ UNCHANGED <<tokenizerVars, parserVars, transformerVars>>

\* lines 282, 287 and 517-518
ParserReturn ==
    /\ Parsing
    /\ stack = <<>>
    /\ ~HasToken(pcurrent)
    /\ phase' = "transformer"
    /\ UNCHANGED calls
    /\ UNCHANGED <<visitor, entry, shape, input, error, tokens, output>>
    /\ UNCHANGED <<tokenizerVars, parserVars, transformerVars>>

parser ==
    \/ ParserNumber
    \/ ParserString
    \/ ParserOpen
    \/ ParserWhileUndefined
    \/ ParserClose
    \/ ParserThrow
    \/ ParserReturn

\* -------------------------------------------------------------- target AST
\* the arrays of the new tree (Program.body, JsCallExpression.args) are
\* shared by reference with _context, so a node holds its array's identity:
\* an index into `arrays`
Identifier(name) == [type |-> "Identifier", name |-> name]
JsExpressionStatement(expression) ==
    [type |-> "ExpressionStatement", expression |-> expression]
JsCallExpression(callee, args) ==
    [type |-> "CallExpression", callee |-> callee, args |-> args]
NewProgramNode(body) == [type |-> "Program", body |-> body]

\* --------------------------------------------------------------- traverser
\* the array traverseNode hands to traverseArray (lines 357-369)
Children(node) ==
    CASE node.type = "Program" -> node.body
      [] node.type = "CallExpression" -> node.params
      [] OTHER -> <<>>

\* a source node, by the indices that lead to it from the root
RECURSIVE NodeAt(_, _)
NodeAt(node, path) ==
    IF path = <<>> THEN node
    ELSE NodeAt(Children(node)[Head(path)], Tail(path))

\* the `parent` argument of the root call (line 380)
null == <<0>>

\* methods && methods.enter, methods && methods.exit (lines 348-352, 373)
Registered_EnterOnly(type, method) ==
    <<type, method>> \in visitor /\ method = "enter"
Registered(type, method) == <<type, method>> \in visitor

\* methods.enter(node, parent) and methods.exit(node, parent), as seen by
\* the visitor: `calls` with the call added when the visitor has the method
Called(method, path, parent) ==
    IF Registered(NodeAt(ast, path).type, method)
    THEN Append(calls, [method |-> method, node |-> path, parent |-> parent])
    ELSE calls

\* the parent a running call of traverseNode was given
ParentOf(path) ==
    IF path = <<>> THEN null ELSE SubSeq(path, 1, Len(path) - 1)

\* ------------------------------------------------------------- transformer
Transforming == phase = "transformer"

\* node._context, 0 standing for undefined
ContextOf(path) == IF path \in DOMAIN _context THEN _context[path] ELSE 0

\* node._context = array
SetContext_Forgotten(path, array) == _context
SetContext(path, array) ==
    [p \in DOMAIN _context \cup {path} |->
        IF p = path THEN array ELSE _context[p]]

\* lines 435, 444, 447 and 380, 348-360: newAst is made, the root is given
\* its body as _context, and traverseNode(ast, null) enters the root, for
\* which the visitor has no method
TransformerStart ==
    /\ Transforming
    /\ newAst.type = "none"
    /\ arrays' = <<<<>>>>
    /\ newAst' = NewProgramNode(1)
    /\ _context' = SetContext(<<>>, 1)
    /\ trav' = <<[path |-> <<>>, next |-> 1]>>
    /\ UNCHANGED calls
    /\ UNCHANGED <<visitor, entry, shape, input, phase, error, tokens,
                   output>>
    /\ UNCHANGED <<tokenizerVars, parserVars>>

\* the call of traverseNode that is running, the node it was given, and the
\* child the loop of traverseArray (line 338) hands to traverseNode next
Frame == trav[Len(trav)]
FrameNode == NodeAt(ast, Frame.path)
HasNextChild == trav # <<>> /\ Frame.next <= Len(Children(FrameNode))
NextChild == Children(FrameNode)[Frame.next]
NextChildPath == Append(Frame.path, Frame.next)

Entering(type) ==
    /\ Transforming
    /\ HasNextChild
    /\ NextChild.type = type

StepOver == [trav EXCEPT ![Len(trav)].next = @ + 1]

\* parent._context.push(node) ; push on undefined throws
Push(node, after) ==
    IF ContextOf(Frame.path) = 0
    THEN /\ Throw("TypeError")
         /\ UNCHANGED <<arrays, _context, trav>>
    ELSE /\ arrays' = [after EXCEPT ![ContextOf(Frame.path)] =
                            Append(@, node)]
         /\ UNCHANGED <<phase, error>>

\* lines 450-454, then 366-368: a leaf has no children and no exit method
EnterNumberLiteral ==
    /\ Entering("NumberLiteral")
    /\ Push(NumberLiteral(NextChild.value), arrays)
    /\ IF ContextOf(Frame.path) # 0
       THEN trav' = StepOver /\ _context' = _context
       ELSE TRUE
    /\ calls' = Called("enter", NextChildPath, Frame.path)
    /\ UNCHANGED <<visitor, entry, shape, input, tokens, output, newAst>>
    /\ UNCHANGED <<tokenizerVars, parserVars>>

\* lines 459-461, then 366-368
EnterStringLiteral ==
    /\ Entering("StringLiteral")
    /\ Push(StringLiteral(NextChild.value), arrays)
    /\ IF ContextOf(Frame.path) # 0
       THEN trav' = StepOver /\ _context' = _context
       ELSE TRUE
    /\ calls' = Called("enter", NextChildPath, Frame.path)
    /\ UNCHANGED <<visitor, entry, shape, input, tokens, output, newAst>>
    /\ UNCHANGED <<tokenizerVars, parserVars>>

\* lines 477-487: what is pushed to the parent's _context
Placed_AlwaysStatement(expression, parentType) ==
    JsExpressionStatement(expression)
Placed(expression, parentType) ==
    IF parentType # "CallExpression"
    THEN JsExpressionStatement(expression)
    ELSE expression

\* lines 465-488, then 362-365: the new call's args array is made and kept
\* as node._context, the call is pushed to the parent, and traverseArray
\* starts on node.params
EnterCallExpression ==
    /\ Entering("CallExpression")
    /\ LET args == Len(arrays) + 1
           expression == JsCallExpression(Identifier(NextChild.name), args)
       IN /\ Push(Placed(expression, FrameNode.type), Append(arrays, <<>>))
          /\ IF ContextOf(Frame.path) # 0
             THEN /\ _context' = SetContext(NextChildPath, args)
                  /\ trav' = Append(StepOver,
                                [path |-> NextChildPath, next |-> 1])
             ELSE TRUE
    /\ calls' = Called("enter", NextChildPath, Frame.path)
    /\ UNCHANGED <<visitor, entry, shape, input, tokens, output, newAst>>
    /\ UNCHANGED <<tokenizerVars, parserVars>>

\* line 338 done, lines 373-376: the transformer's visitor has no exit
\* method ; traverseNode returns
TraverseNodeReturn ==
    /\ Transforming
    /\ trav # <<>>
    /\ ~HasNextChild
    /\ trav' = SubSeq(trav, 1, Len(trav) - 1)
    /\ calls' = Called("exit", Frame.path, ParentOf(Frame.path))
    /\ UNCHANGED <<visitor, entry, shape, input, phase, error, tokens,
                   output>>
    /\ UNCHANGED <<arrays, newAst, _context>>
    /\ UNCHANGED <<tokenizerVars, parserVars>>

\* what is left on the source nodes when transformer returns: nothing
\* clears _context
ContextAtReturn_Discarded == <<>>
ContextAtReturn == _context

\* lines 493 and 518-519
TransformerReturn ==
    /\ Transforming
    /\ newAst.type # "none"
    /\ trav = <<>>
    /\ phase' = "codeGenerator"
    /\ _context' = ContextAtReturn
    /\ UNCHANGED calls
    /\ UNCHANGED <<visitor, entry, shape, input, error, tokens, output>>
    /\ UNCHANGED <<arrays, newAst, trav>>
    /\ UNCHANGED <<tokenizerVars, parserVars>>

transformer ==
    \/ TransformerStart
    \/ EnterNumberLiteral
    \/ EnterStringLiteral
    \/ EnterCallExpression
    \/ TraverseNodeReturn
    \/ TransformerReturn

\* ----------------------------------------------------------- codeGenerator
\* Array.prototype.join
join(texts, sep) == JoinTexts(texts, sep)

\* generateJsCode of each class of the new tree (lines 116-118, 125-127,
\* 141-143, 151-153, 161-163, 171-178)
StringLiteralCode(v) == <<"\"">> \o v \o <<"\"">>

ArgumentSeparator_NoSpace == <<",">>
ArgumentSeparator == <<",", " ">>

StatementCode_Bare(code) == code
StatementCode(code) == code \o <<";">>

RECURSIVE generateJsCode(_)
generateJsCode(node) ==
    CASE node.type = "NumberLiteral" -> node.value
      [] node.type = "StringLiteral" -> StringLiteralCode(node.value)
      [] node.type = "Identifier" -> node.name
      [] node.type = "ExpressionStatement" ->
            StatementCode(generateJsCode(node.expression))
      [] node.type = "CallExpression" ->
            generateJsCode(node.callee) \o <<"(">>
            \o join([i \in 1..Len(arrays[node.args]) |->
                        generateJsCode(arrays[node.args][i])],
                    ArgumentSeparator)
            \o <<")">>
      [] node.type = "Program" ->
            join([i \in 1..Len(arrays[node.body]) |->
                        generateJsCode(arrays[node.body][i])],
                 <<"\n">>)

\* lines 510-513 and 519-522
codeGenerator ==
    /\ phase = "codeGenerator"
    /\ output' = generateJsCode(newAst)
    /\ phase' = "done"
    /\ UNCHANGED calls
    /\ UNCHANGED <<visitor, entry, shape, input, error, tokens>>
    /\ UNCHANGED <<tokenizerVars, parserVars, transformerVars>>

\* ------------------------------------------- traverser, called directly
\* line 380 and 348-354: traverseNode(ast, null)
TraverserStart ==
    /\ phase = "traverser"
    /\ phase' = "traverseNode"
    /\ calls' = Called("enter", <<>>, null)
    /\ trav' = <<[path |-> <<>>, next |-> 1]>>
    /\ UNCHANGED <<visitor, entry, shape, input, error, tokens, output>>
    /\ UNCHANGED <<arrays, newAst, _context>>
    /\ UNCHANGED <<tokenizerVars, parserVars>>

\* lines 338-339 and 348-354: the loop of traverseArray calls traverseNode
\* on the next child, which calls enter
TraverseNodeEnter ==
    /\ phase = "traverseNode"
    /\ HasNextChild
    /\ calls' = Called("enter", NextChildPath, Frame.path)
    /\ trav' = Append(StepOver, [path |-> NextChildPath, next |-> 1])
    /\ UNCHANGED <<visitor, entry, shape, input, phase, error, tokens,
                   output>>
    /\ UNCHANGED <<arrays, newAst, _context>>
    /\ UNCHANGED <<tokenizerVars, parserVars>>

\* line 338 done (or lines 366-368 for a leaf), then lines 373-376
TraverseNodeExit ==
    /\ phase = "traverseNode"
    /\ trav # <<>>
    /\ ~HasNextChild
    /\ calls' = Called("exit", Frame.path, ParentOf(Frame.path))
    /\ trav' = SubSeq(trav, 1, Len(trav) - 1)
    /\ UNCHANGED <<visitor, entry, shape, input, phase, error, tokens,
                   output>>
    /\ UNCHANGED <<arrays, newAst, _context>>
    /\ UNCHANGED <<tokenizerVars, parserVars>>

\* line 381: the root call has returned
TraverserReturn ==
    /\ phase = "traverseNode"
    /\ trav = <<>>
    /\ phase' = "traversed"
    /\ UNCHANGED calls
    /\ UNCHANGED <<visitor, entry, shape, input, error, tokens, output>>
    /\ UNCHANGED <<tokenizerVars, parserVars, transformerVars>>

traverser ==
    \/ TraverserStart
    \/ TraverseNodeEnter
    \/ TraverseNodeExit
    \/ TraverserReturn

Next ==
    \/ traverser
    \/ tokenizer
    \/ parser
    \/ transformer
    \/ codeGenerator

Spec == Init /\ [][Next]_vars

\* ================================================================= claims
Returned == phase = "done"
Failed == phase = "error"
Running == ~Returned /\ ~Failed

\* the rendering the documentation describes, written on the input program
RECURSIVE ReferenceExpression(_)
ReferenceExpression(node) ==
    CASE node.type = "NumberLiteral" -> node.value
      [] node.type = "StringLiteral" -> <<"\"">> \o node.value \o <<"\"">>
      [] node.type = "CallExpression" ->
            node.name \o <<"(">>
            \o JoinTexts([i \in 1..Len(node.params) |->
                            ReferenceExpression(node.params[i])],
                         <<",", " ">>)
            \o <<")">>

ReferenceProgram(body) ==
    JoinTexts([i \in 1..Len(body) |->
                    ReferenceExpression(body[i]) \o <<";">>], <<"\n">>)

RECURSIVE HasString(_)
HasString(node) ==
    \/ node.type = "StringLiteral"
    \/ /\ node.type = "CallExpression"
       /\ \E i \in 1..Len(node.params) : HasString(node.params[i])

NumbersOnly(body) == \A i \in 1..Len(body) : ~HasString(body[i])

NestedOutput ==
    <<"a", "d", "d", "(", "2", ",", " ", "s", "u", "b", "t", "r", "a", "c",
      "t", "(", "4", ",", " ", "2", ")", ")", ";">>
NoArgsOutput == <<"f", "o", "o", "(", ")", ";">>

\* C1: compiler on a text of well-formed nested calls over numbers never
\* fails, does not stop before it returns, and returns the reference
\* rendering of the calls: name(arg, arg); one statement per line, in input
\* order; `(add 2 (subtract 4 2))` gives `add(2, subtract(4, 2));` and
\* `(foo)` gives `foo();`
C1_ReferenceRendering ==
    /\ (entry = "compiler" /\ shape # <<>> /\ NumbersOnly(shape)) =>
            /\ ~Failed
            /\ Returned => output = ReferenceProgram(shape)
            /\ Running => ENABLED Next
    /\ (entry = "compiler" /\ input = ScenarioNested) =>
            /\ ~Failed
            /\ Returned => output = NestedOutput
    /\ (entry = "compiler" /\ input = ScenarioNoArgs) =>
            /\ ~Failed
            /\ Returned => output = NoArgsOutput

C1_Witness ==
    /\ Returned
    /\ entry = "compiler"
    /\ Len(shape) = 2 /\ NumbersOnly(shape)
    /\ Len(shape[1].params) = 2 /\ shape[1].params[1] # shape[1].params[2]
    /\ output = ReferenceProgram(shape)

\* C2 (as claimed): compiler on a text of well-formed nested calls over
\* numbers and quoted strings never fails and returns a text with the same
\* names, argument order and nesting as the input
C2_Original ==
    (entry = "compiler" /\ shape # <<>>) =>
        /\ ~Failed
        /\ Returned => output = ReferenceProgram(shape)

\* C3 (as claimed): when tokenizer, reading a string, finds the closing
\* quote, it emits one String token holding the characters between the
\* quotes and resumes at the character after the closing quote
C3_Original ==
    [][(Tokenizing /\ scan = "string" /\ CharAt(current) = "\"") =>
            /\ tokens' = Append(tokens, Token("string", value))
            /\ current' = current + 1]_vars

CountChar(text, c) == Cardinality({i \in 1..Len(text) : text[i] = c})

\* the lines of a text
RECURSIVE SplitLines(_, _)
SplitLines(text, line) ==
    IF text = <<>> THEN <<line>>
    ELSE IF Head(text) = "\n"
         THEN <<line>> \o SplitLines(Tail(text), <<>>)
         ELSE SplitLines(Tail(text), Append(line, Head(text)))

StatementLines == IF ast.body = <<>> THEN <<>> ELSE SplitLines(output, <<>>)

EndsWithSemicolon(line) == line # <<>> /\ line[Len(line)] = ";"

\* C4 (as claimed): every top-level expression, call or literal, is one
\* statement ending in `;` in the output, and no nested call has a `;`
C4_Original ==
    (Returned /\ entry = "compiler") =>
        /\ Len(StatementLines) = Len(ast.body)
        /\ \A i \in 1..Len(StatementLines) :
                EndsWithSemicolon(StatementLines[i])
        /\ CountChar(output, ";") = Len(ast.body)

TopLevelCalls == {i \in 1..Len(ast.body) : ast.body[i].type = "CallExpression"}

\* C4 (amended): every top-level expression is one line of the output, in
\* order; the line of a top-level call ends in `;`, the line of a top-level
\* number or string literal has no `;`, and no nested call has a `;`
C4_TopLevelCallsAreStatements ==
    Returned =>
        /\ Len(StatementLines) = Len(ast.body)
        /\ \A i \in 1..Len(StatementLines) :
                EndsWithSemicolon(StatementLines[i]) <=> i \in TopLevelCalls
        /\ CountChar(output, ";") = Cardinality(TopLevelCalls)

C4_Witness ==
    /\ Returned
    /\ entry = "compiler"
    /\ Len(ast.body) = 2
    /\ ast.body[1].type = "NumberLiteral"
    /\ ast.body[2].type = "CallExpression"
    /\ CountChar(output, ";") = 1
    /\ EndsWithSemicolon(output)

\* the characters tokenizer has a branch for
KnownCharacters == {"(", ")", "\""} \cup Spaces \cup Digits \cup Letters

\* C5: when the scan reaches, outside a string, a character that is no
\* parenthesis, whitespace, digit, quote or letter, tokenizer throws, no
\* tokens are returned, and compiler ends with that error and no output
C5_UnknownCharacterThrows ==
    /\ [][(Tokenizing /\ scan = "main" /\ current < Len(input)
            /\ input[current + 1] \notin KnownCharacters) =>
                /\ phase' = "error"
                /\ error' = "TypeError"
                /\ output' = NoOutput]_vars
    /\ [](Failed => output = NoOutput /\ ~ENABLED Next)

C5_Witness ==
    /\ Failed
    /\ error = "TypeError"
    /\ input = ScenarioBadChar
    /\ current = 7
    /\ output = NoOutput

\* C6 (as claimed): when the input ends inside a quoted string, tokenizer
\* throws at once; it does not go on scanning past the end of the input
C6_Original ==
    [][(Tokenizing /\ scan = "string" /\ current >= Len(input)) =>
            /\ phase' = "error"
            /\ current' = current]_vars

ParserReturned == phase \in {"transformer", "codeGenerator", "done"}

\* C7 (as claimed): parser returns a Program only if every opening
\* parenthesis is followed by a Name token; a Number, a String, a Paren or
\* nothing after it is an error
C7_Original ==
    ParserReturned =>
        \A i \in 1..Len(tokens) :
            IsOpening(tokens[i]) =>
                i < Len(tokens) /\ tokens[i + 1].type = "name"

\* C8: whenever walk is called (at the top level or for an argument) on a
\* token that is no Number, no String and no opening parenthesis, that is a
\* Name token or a top-level closing parenthesis, it throws and parser
\* returns no Program
C8_UnexpectedTokenThrows ==
    [][(Parsing /\ pcurrent < Len(tokens)
        /\ (stack = <<>> \/ tokens[pcurrent + 1] # Token("paren", <<")">>))
        /\ tokens[pcurrent + 1].type \notin {"number", "string"}
        /\ tokens[pcurrent + 1] # Token("paren", <<"(">>)) =>
            /\ phase' = "error"
            /\ error' = "TypeError"
            /\ ast' = ast]_vars

C8_Witness ==
    /\ Failed
    /\ error = "TypeError"
    /\ stack # <<>>
    /\ pcurrent < Len(tokens)
    /\ tokens[pcurrent + 1].type = "name"

\* the paths of the nodes of a source tree
RECURSIVE Paths(_)
Paths(node) ==
    {<<>>} \cup
    UNION {{<<i>> \o p : p \in Paths(Children(node)[i])} :
                i \in 1..Len(Children(node))}

TransformerReturned == phase \in {"codeGenerator", "done"}

\* C9 (as claimed): transformer leaves the source tree as it was, and after
\* it returns no source node holds a _context any more
C9_Original ==
    /\ [][Transforming => ast' = ast]_vars
    /\ [](TransformerReturned =>
            \A p \in Paths(ast) : ContextOf(p) = 0)

\* C9 (amended): transformer leaves the kinds, names, values and children
\* of the source tree as they were, but _context is not discarded: after it
\* returns, the source Program still holds the body of the new Program and
\* every source CallExpression still holds an args array of the new tree;
\* only the literals hold none
C9_ContextIsKept ==
    /\ [][Transforming => ast' = ast]_vars
    /\ [](TransformerReturned =>
            /\ ContextOf(<<>>) = newAst.body
            /\ \A p \in Paths(ast) :
                IF NodeAt(ast, p).type \in {"Program", "CallExpression"}
                THEN ContextOf(p) \in 1..Len(arrays)
                ELSE ContextOf(p) = 0)

C9_Witness ==
    /\ TransformerReturned
    /\ <<1, 1>> \in Paths(ast)
    /\ ContextOf(<<>>) = 1
    /\ ContextOf(<<1>>) = 2
    /\ ContextOf(<<1, 1>>) = 0

\* the new tree with every array identity replaced by the array's content
RECURSIVE Resolve(_)
Resolve(node) ==
    CASE node.type = "Program" ->
            [type |-> "Program",
             body |-> [i \in 1..Len(arrays[node.body]) |->
                            Resolve(arrays[node.body][i])]]
      [] node.type = "ExpressionStatement" ->
            [type |-> "ExpressionStatement",
             expression |-> Resolve(node.expression)]
      [] node.type = "CallExpression" ->
            [type |-> "CallExpression",
             callee |-> node.callee,
             args |-> [i \in 1..Len(arrays[node.args]) |->
                            Resolve(arrays[node.args][i])]]
      [] OTHER -> node

\* the new tree the documentation describes for a source expression
RECURSIVE TargetOf(_, _)
TargetOf(node, topLevel) ==
    IF node.type = "CallExpression"
    THEN LET call ==
                [type |-> "CallExpression",
                 callee |-> [type |-> "Identifier", name |-> node.name],
                 args |-> [i \in 1..Len(node.params) |->
                                TargetOf(node.params[i], FALSE)]]
         IN IF topLevel
            THEN [type |-> "ExpressionStatement", expression |-> call]
            ELSE call
    ELSE [type |-> node.type, value |-> node.value]

\* C10: for the Program parser returned, transformer returns a Program with
\* one entry per top-level source expression, in order: a top-level call as
\* ExpressionStatement(Call(Identifier(name), args)), a call that is an
\* argument as a bare Call, a literal as the same literal, args in the order
\* of params
C10_TargetTree ==
    TransformerReturned =>
        Resolve(newAst) =
            [type |-> "Program",
             body |-> [i \in 1..Len(ast.body) |->
                            TargetOf(ast.body[i], TRUE)]]

C10_Witness ==
    /\ TransformerReturned
    /\ phase = "codeGenerator"
    /\ Len(ast.body) = 1
    /\ ast.body[1].type = "CallExpression"
    /\ Len(ast.body[1].params) = 2
    /\ ast.body[1].params[1].type = "NumberLiteral"
    /\ ast.body[1].params[2].type = "CallExpression"
    /\ Resolve(newAst).body[1].expression.args[2].type = "CallExpression"

\* C11 (as claimed): a run of letters gives one Name token holding exactly
\* that run, also when the run ends with the input: once the cursor, reading
\* a name, is on a character that is no ASCII letter or is past the last
\* character, the next step emits the Name token with the letters read
C11_Original ==
    [][(Tokenizing /\ scan = "name"
        /\ (current >= Len(input) \/ input[current + 1] \notin Letters)) =>
            /\ tokens' = Append(tokens, Token("name", value))
            /\ current' = current
            /\ phase' = "tokenizer"]_vars

\* the calls the documentation describes for a subtree: enter of the node,
\* then the calls of each child in stored order with the node as parent,
\* then exit of the node; a call is made only if the visitor has the method
RECURSIVE DepthFirst(_, _, _)
DepthFirst(node, path, parent) ==
    LET kids == IF node.type = "Program" THEN node.body
                ELSE IF node.type = "CallExpression" THEN node.params
                ELSE <<>>
        call(method) ==
            IF <<node.type, method>> \in visitor
            THEN <<[method |-> method, node |-> path, parent |-> parent]>>
            ELSE <<>>
    IN call("enter")
       \o JoinTexts([i \in 1..Len(kids) |->
                        DepthFirst(kids[i], Append(path, i), path)], <<>>)
       \o call("exit")

IsPrefix(s, t) == Len(s) <= Len(t) /\ s = SubSeq(t, 1, Len(s))

TraversalStarted ==
    \/ phase \in {"traverseNode", "traversed"}
    \/ phase \in {"transformer", "codeGenerator", "done"}
        /\ newAst.type # "none"
TraversalDone ==
    \/ phase \in {"traversed", "codeGenerator", "done"}
    \/ phase = "transformer" /\ newAst.type # "none" /\ trav = <<>>

\* C12: the methods of the visitor are called in depth-first order: enter
\* of a node before every call for its descendants, the children in stored
\* order with the node as parent, exit of the node after every call for its
\* descendants, each node entered and exited once, parent null for the root
\* alone; at every moment the calls made are the beginning of that order,
\* and when traverser returns they are all of it
C12_DepthFirstOrder ==
    /\ TraversalStarted =>
            IsPrefix(calls, DepthFirst(ast, <<>>, <<0>>))
    /\ TraversalDone => calls = DepthFirst(ast, <<>>, <<0>>)
    /\ ~TraversalStarted => calls = <<>>

C12_Witness ==
    /\ phase = "traversed"
    /\ visitor = AllMethods
    /\ ast = ProgramNode(<<MixedCall, DeepCall>>)
    /\ Len(calls) = 22
    /\ calls[1] = [method |-> "enter", node |-> <<>>, parent |-> <<0>>]
    /\ calls[3] = [method |-> "enter", node |-> <<1, 1>>, parent |-> <<1>>]
    /\ calls[4] = [method |-> "exit", node |-> <<1, 1>>, parent |-> <<1>>]
    /\ calls[22] = [method |-> "exit", node |-> <<>>, parent |-> <<0>>]

\* the new call a source CallExpression was turned into: the entry pushed
\* for it to its parent's _context, without its ExpressionStatement
TargetCallOf(path) ==
    LET placed == arrays[ContextOf(ParentOf(path))][path[Len(path)]]
    IN IF placed.type = "ExpressionStatement"
       THEN placed.expression
       ELSE placed

\* C13: whenever transformer's enter method is about to run for a child,
\* the _context of its parent is set: it is the body of the new Program
\* when the parent is the source Program, and the args of the new call made
\* for the parent when the parent is a CallExpression; and no method ever
\* throws for pushing to an unset _context
C13_ParentContextIsSet ==
    /\ (Transforming /\ HasNextChild) =>
            /\ NextChild.type \in
                    {"NumberLiteral", "StringLiteral", "CallExpression"}
            /\ ContextOf(Frame.path) \in 1..Len(arrays)
            /\ FrameNode.type = "Program" =>
                    /\ Frame.path = <<>>
                    /\ ContextOf(Frame.path) = newAst.body
            /\ FrameNode.type = "CallExpression" =>
                    /\ TargetCallOf(Frame.path).type = "CallExpression"
                    /\ TargetCallOf(Frame.path).callee.name = FrameNode.name
                    /\ TargetCallOf(Frame.path).args = ContextOf(Frame.path)
    /\ Failed => newAst.type = "none"

C13_Witness ==
    /\ Transforming /\ HasNextChild
    /\ Frame.path = <<1, 1, 1>>
    /\ NextChild.type = "NumberLiteral"
    /\ ContextOf(Frame.path) = 4
    /\ arrays[4] = <<>>
    /\ Len(calls) = 3

\* C14: when the tokens run out while a call is open (right after its
\* opening parenthesis, or after its name or some arguments), parser throws
\* and returns no Program; no Program is ever returned with a call left
\* open, and compiler gives no output for `(add 2`
C14_UnfinishedCallThrows ==
    /\ [][(/\ Parsing
           /\ \/ stack # <<>> /\ pcurrent >= Len(tokens)
              \/ /\ pcurrent + 1 = Len(tokens)
                 /\ tokens[pcurrent + 1] = Token("paren", <<"(">>)) =>
                /\ phase' = "error"
                /\ error' = "TypeError"
                /\ ast' = ast
                /\ output' = NoOutput]_vars
    /\ [](ParserReturned => stack = <<>>)
    /\ []((entry = "compiler" /\ input = ScenarioUnclosed) =>
                ~ParserReturned /\ output = NoOutput)

C14_Witness ==
    /\ Failed
    /\ error = "TypeError"
    /\ input = ScenarioUnclosed
    /\ pcurrent = 3
    /\ stack = <<CallExpression(<<"a", "d", "d">>, <<NumberLiteral(<<"2">>)>>)>>
    /\ ast = ProgramNode(<<>>)

====
